---- MODULE Spec2Model ----
(***************************************************************************)
(* Music-Tracker: the catalog of DAW project files kept by MusicTracker    *)
(* (src/music_tracker/music_tracker.py).  The state is the three SQLite    *)
(* tables, the part of the filesystem the scanner reads, the calendar day  *)
(* the storage engine stamps rows with, and the outcome of the last call.  *)
(*                                                                         *)
(* Optional (nullable) values are sets with at most one element: {} is     *)
(* Python's None / SQL NULL and {v} is the value v.                        *)
(***************************************************************************)
EXTENDS Integers, Sequences, FiniteSets, TLC

VARIABLES
    fs,                 \* project file -> {} (absent) or {[size, ctime, mtime, err]}
    assets,             \* the non-project files that exist (a set of paths)
    today,              \* the calendar day, as a day number (see DateOf)
    raw_projects,       \* table raw_projects, in rowid order
    refined_projects,   \* table refined_projects, in rowid order
    rejected_projects,  \* table rejected_projects, in rowid order
    last                \* the last call: what was called and how it ended

vars == <<fs, assets, today, raw_projects, refined_projects, rejected_projects, last>>

----------------------------------------------------------------------------
(* Bounds of the model *)

\* refine_project is enabled while refined_projects holds fewer rows
MaxRefined == 2
\* the same, where the disk and the day change as well (SpecDiscovery)
MaxPromoted == 1

----------------------------------------------------------------------------
(* Text: str.lower(), the `in` operator on strings, str(int), int(str) *)

None == {}
Some(v) == {v}
IsNone(o) == o = {}
Val(o) == CHOOSE v \in o : TRUE

UpperLetters == "ABCDEFGHIJKLMNOPQRSTUVWXYZ"
LowerLetters == "abcdefghijklmnopqrstuvwxyz"
Digits == "0123456789"

CharAt(s, i) == SubSeq(s, i, i)

LowerChar(c) ==
    IF \E i \in 1..Len(UpperLetters) : CharAt(UpperLetters, i) = c
    THEN CharAt(LowerLetters, CHOOSE i \in 1..Len(UpperLetters) : CharAt(UpperLetters, i) = c)
    ELSE c

RECURSIVE Lower(_)
Lower(s) == IF Len(s) = 0 THEN "" ELSE LowerChar(CharAt(s, 1)) \o Lower(SubSeq(s, 2, Len(s)))

\* Python's  sub in s
Contains(sub, s) ==
    \E i \in 1..(Len(s) - Len(sub) + 1) : SubSeq(s, i, i + Len(sub) - 1) = sub

StartsWith(s, prefix) == Len(prefix) <= Len(s) /\ SubSeq(s, 1, Len(prefix)) = prefix
EndsWith(s, suffix) ==
    Len(suffix) <= Len(s) /\ SubSeq(s, Len(s) - Len(suffix) + 1, Len(s)) = suffix

IsDigitChar(c) == \E d \in 1..Len(Digits) : CharAt(Digits, d) = c
DigitVal(c) == (CHOOSE d \in 1..Len(Digits) : CharAt(Digits, d) = c) - 1

\* str.isdigit(): non-empty and every character a digit
IsDigit(s) == Len(s) > 0 /\ \A i \in 1..Len(s) : IsDigitChar(CharAt(s, i))

RECURSIVE NatToStr(_)
NatToStr(n) ==
    IF n < 10 THEN CharAt(Digits, n + 1)
    ELSE NatToStr(n \div 10) \o CharAt(Digits, (n % 10) + 1)

\* str(n) for an int
IntToStr(n) == IF n < 0 THEN "-" \o NatToStr(0 - n) ELSE NatToStr(n)

RECURSIVE StrToNat(_)
\* int(s) for a string of digits
StrToNat(s) ==
    IF Len(s) = 0 THEN 0
    ELSE 10 * StrToNat(SubSeq(s, 1, Len(s) - 1)) + DigitVal(CharAt(s, Len(s)))

\* n written with at least w digits (zero padded), as date.isoformat() does
RECURSIVE Pad(_, _)
Pad(s, w) == IF Len(s) >= w THEN s ELSE Pad("0" \o s, w)

\* datetime.date -> the text sqlite3's date adapter stores: YYYY-MM-DD
IsoFormat(d) ==
    Pad(NatToStr(d[1]), 4) \o "-" \o Pad(NatToStr(d[2]), 2) \o "-" \o Pad(NatToStr(d[3]), 2)

\* the calendar date of day number k: 2023-12-31, 2024-01-01, 2024-01-02, ...
DateOf(k) == IF k = 0 THEN <<2023, 12, 31>> ELSE <<2024, 1, k>>

----------------------------------------------------------------------------
(* Paths: a path is the sequence of its parts (pathlib's Path.parts) *)

Name(p) == p[Len(p)]
Parent(p) == SubSeq(p, 1, Len(p) - 1)

RECURSIVE PathStr(_)
\* str(path)
PathStr(p) ==
    IF Len(p) = 0 THEN "."
    ELSE IF Len(p) = 1 THEN p[1]
    ELSE PathStr(Parent(p)) \o "/" \o Name(p)

\* q lies somewhere below directory d
Under(d, q) == Len(q) > Len(d) /\ SubSeq(q, 1, Len(d)) = d

\* the position of the last "." of a name, 0 when it has none
LastDot(n) ==
    IF \E i \in 1..Len(n) : CharAt(n, i) = "."
    THEN CHOOSE i \in 1..Len(n) :
            CharAt(n, i) = "." /\ \A j \in (i + 1)..Len(n) : CharAt(n, j) # "."
    ELSE 0

\* Path.stem: the name without its last suffix; a leading or trailing dot is no suffix
Stem(p) ==
    LET n == Name(p)
        i == LastDot(n)
    IN  IF 1 < i /\ i < Len(n) THEN SubSeq(n, 1, i - 1) ELSE n

\* the sequences that list every element of the finite set S once, in any order
RECURSIVE Orderings(_)
Orderings(S) ==
    IF S = {} THEN {<<>>}
    ELSE UNION {{<<x>> \o t : t \in Orderings(S \ {x})} : x \in S}

----------------------------------------------------------------------------
(* The filesystem the scanner reads *)

TakeFlp  == <<"music", "sub", "Take-1.flp">>
SongFile == <<"music", "Song", "Song.song">>
OldFlp   == <<"music", "Backup", "Old.flp">>
SongWav  == <<"music", "Song", "Song.wav">>
DsStore  == <<"music", "Song", ".DS_Store">>

\* further projects: a Logic file beside other projects, one in a folder of its
\* own name, a Bitwig project; and files beside them
SoloLogic == <<"music", "sub", "Solo.logicx">>
BeatLogic == <<"music", "Beat", "Beat.logicx">>
SetBw     == <<"music", "Live", "Set.bwproject">>
SoloWav   == <<"music", "sub", "Solo_bounce.wav">>
KickWav   == <<"music", "Song", "Audio", "kick.wav">>

\* files with a project extension, and the other files a project folder may hold
ProjectFiles == {TakeFlp, SongFile, OldFlp, SoloLogic, BeatLogic, SetBw}
AssetFiles == {SongWav, DsStore, SoloWav, KickWav}

\* the files on the disk the catalog's operations start from
InitialFiles == {TakeFlp, SongFile, OldFlp}
InitialAssets == {SongWav, DsStore}

\* the directories a caller may ask to scan; <<"nowhere">> never exists
ScanRoots == {<<"music">>, <<"music", "sub">>, <<"nowhere">>}

\* the two contents a project file alternates between when it is saved
SizeA == 3 * 1024 * 1024
SizeB == SizeA + 1536 * 1024

\* the file that is saved again and the file that comes and goes beside it
EditedFiles == {SongFile}
PassingAssets == {SongWav}

\* every path of the model: the files and their ancestor directories
AllPaths == UNION {{SubSeq(f, 1, k) : k \in 1..Len(f)} : f \in ProjectFiles \cup AssetFiles}

\* the days the calendar runs through
Days == {0, 1}

FilesOnDisk == {f \in ProjectFiles : fs[f] # None} \cup assets

\* every directory that exists: the ancestors of the files on disk
DirsOnDisk == UNION {{SubSeq(f, 1, k) : k \in 1..(Len(f) - 1)} : f \in FilesOnDisk}

Exists(p) == p \in FilesOnDisk \/ p \in DirsOnDisk
IsFile(p) == p \in FilesOnDisk

\* Path.stat(): {} when it raises: nothing of the model's files is at p, or the
\* entry cannot be read (a dangling link, a file going away under the scan)
Stat(p) == IF p \in ProjectFiles /\ fs[p] # None /\ ~Val(fs[p]).err THEN fs[p] ELSE None

\* Path.iterdir(): the entries directly inside directory d
IterDir(d) == {q \in FilesOnDisk \cup DirsOnDisk : Len(q) = Len(d) + 1 /\ Under(d, q)}

\* Path.rglob("*" + ext): every entry below d whose name ends with ext
\* (the names are matched once, for every path of the model)
NameMatches == [ext \in {".flp", ".logicx", ".song", ".bwproject"} |->
                   {q \in AllPaths : EndsWith(Name(q), ext)}]
RGlob(d, ext) == {q \in NameMatches[ext] : Exists(q) /\ Under(d, q)}

\* str(p), p.stem and p.name.startswith('.') of every path of the model
PathText == [p \in AllPaths \cup ScanRoots |-> PathStr(p)]
StemOf == [p \in AllPaths |-> Stem(p)]
Hidden == {p \in AllPaths : StartsWith(Name(p), ".")}

----------------------------------------------------------------------------
(* Discovery: detect_daw_projects, _should_skip_file, _analyze_project_file *)

\* daw_patterns, in the dict's (insertion) order
daw_patterns == <<
    [pattern |-> ".flp",       daw_name |-> "FL Studio"],
    [pattern |-> ".logicx",    daw_name |-> "Logic Pro"],
    [pattern |-> ".song",      daw_name |-> "Studio One"],
    [pattern |-> ".bwproject", daw_name |-> "Bitwig"] >>

skip_patterns ==
    {"auto-backup", "auto-save", "backup", "temp", "tmp", ".backup", "_backup",
     "autosave", "recovery"}

backup_filename_patterns == {" [20", ".bak", "_bak", ".backup", "_backup", "~", ".tmp"}

\* every part of the path, the file's own name included, is tested against
\* skip_patterns; then the name against backup_filename_patterns
_should_skip_file(project_file) ==
    \/ \E i \in 1..Len(project_file) :
          \E pattern \in skip_patterns : Contains(pattern, Lower(project_file[i]))
    \/ \E pattern \in backup_filename_patterns :
          Contains(pattern, Lower(Name(project_file)))

\* file_stat.st_size / (1024 * 1024), rounded to two decimals (ties to even);
\* the result is kept in hundredths of a megabyte
FileSizeMb(st_size) ==
    LET q == (st_size * 100) \div 1048576
        r == (st_size * 100) % 1048576
    IN  IF 2 * r > 1048576 \/ (2 * r = 1048576 /\ q % 2 = 1) THEN q + 1 ELSE q

\* json.dumps of a list of names
RECURSIVE JsonItems(_)
JsonItems(names) ==
    IF Len(names) = 0 THEN ""
    ELSE IF Len(names) = 1 THEN "\"" \o names[1] \o "\""
    ELSE "\"" \o names[1] \o "\", " \o JsonItems(Tail(names))
JsonDumps(names) == "[" \o JsonItems(names) \o "]"

\* _should_skip_file of every path of the model
Skipped == {p \in AllPaths : _should_skip_file(p)}

\* (mutant) '.flp' is handled as the formats that always live in a folder
ProjectFolder_flp_folder(project_file, extension) ==
    IF extension \in {".song", ".bwproject", ".flp"} THEN Some(Parent(project_file))
    ELSE IF extension = ".logicx"
            /\ (\/ Name(Parent(project_file)) = StemOf[project_file]
                \/ \E sibling \in IterDir(Parent(project_file)) \ {project_file} :
                      StartsWith(Name(sibling), StemOf[project_file]))
         THEN Some(Parent(project_file))
    ELSE None

\* (mutant) a Logic file's parent is its folder only when it has the file's stem
\* as its name; the other entries are not looked at
ProjectFolder_name_only(project_file, extension) ==
    IF extension \in {".song", ".bwproject"} THEN Some(Parent(project_file))
    ELSE IF extension = ".logicx" /\ Name(Parent(project_file)) = StemOf[project_file]
         THEN Some(Parent(project_file))
    ELSE None

\* the project folder the file's format implies (None: the file stands alone)
ProjectFolder(project_file, extension) ==
    IF extension \in {".song", ".bwproject"} THEN Some(Parent(project_file))
    ELSE IF extension = ".logicx"
            /\ (\/ Name(Parent(project_file)) = StemOf[project_file]
                \/ \E sibling \in IterDir(Parent(project_file)) \ {project_file} :
                      StartsWith(Name(sibling), StemOf[project_file]))
         THEN Some(Parent(project_file))
    ELSE None

\* (mutant) hidden files are listed as well
AdditionalFiles_with_hidden(project_file, project_folder) ==
    IF IsNone(project_folder) THEN {}
    ELSE {item \in IterDir(Val(project_folder)) : item # project_file /\ IsFile(item)}

\* the entries of the project folder that are listed as additional files
AdditionalFiles(project_file, project_folder) ==
    IF IsNone(project_folder) THEN {}
    ELSE {item \in IterDir(Val(project_folder)) :
            /\ item # project_file
            /\ IsFile(item)
            /\ item \notin Hidden}

\* the values _analyze_project_file may return: {} when stat() fails (None is
\* returned), else one dict per order in which iterdir() may list the folder
_analyze_project_file(project_file, daw_name, extension) ==
    IF IsNone(Stat(project_file)) THEN {}
    ELSE
    LET file_stat == Val(Stat(project_file))
        project_folder == ProjectFolder(project_file, extension)
        detected_title ==
            IF IsNone(project_folder) THEN StemOf[project_file]
            ELSE Name(Val(project_folder))
        items == AdditionalFiles(project_file, project_folder)
    IN  {[project_file_path   |-> PathText[project_file],
          project_folder_path |-> IF IsNone(project_folder) THEN None
                                  ELSE Some(PathText[Val(project_folder)]),
          daw_type            |-> daw_name,
          detected_title      |-> detected_title,
          file_size_mb        |-> FileSizeMb(file_stat.size),
          date_created        |-> DateOf(file_stat.ctime),
          date_modified       |-> DateOf(file_stat.mtime),
          additional_files    |-> IF Len(order) = 0 THEN None
                                  ELSE Some(JsonDumps([i \in 1..Len(order) |-> Name(order[i])]))]
         : order \in Orderings(items)}

\* (mutant) a candidate that cannot be analysed ends the pattern's loop
RECURSIVE AnalyzeAll_abort(_, _)
AnalyzeAll_abort(files, pat) ==
    IF Len(files) = 0 THEN {<<>>}
    ELSE IF Head(files) \in Skipped THEN AnalyzeAll_abort(Tail(files), pat)
    ELSE LET infos == _analyze_project_file(Head(files), pat.daw_name, pat.pattern)
         IN  IF infos = {} THEN {<<>>}
             ELSE {<<info>> \o rest : info \in infos, rest \in AnalyzeAll_abort(Tail(files), pat)}

\* (mutant) no candidate is asked about at _should_skip_file
RECURSIVE AnalyzeAll_no_skip(_, _)
AnalyzeAll_no_skip(files, pat) ==
    IF Len(files) = 0 THEN {<<>>}
    ELSE LET infos == _analyze_project_file(Head(files), pat.daw_name, pat.pattern)
         IN  IF infos = {} THEN AnalyzeAll_no_skip(Tail(files), pat)
             ELSE {<<info>> \o rest : info \in infos,
                                      rest \in AnalyzeAll_no_skip(Tail(files), pat)}

\* the lists one pattern contributes: the matches in any order rglob may yield
\* them, the skipped ones dropped, each survivor analysed
RECURSIVE AnalyzeAll(_, _)
AnalyzeAll(files, pat) ==
    IF Len(files) = 0 THEN {<<>>}
    ELSE IF Head(files) \in Skipped THEN AnalyzeAll(Tail(files), pat)
    ELSE LET infos == _analyze_project_file(Head(files), pat.daw_name, pat.pattern)
         IN  IF infos = {} THEN AnalyzeAll(Tail(files), pat)
             ELSE {<<info>> \o rest : info \in infos, rest \in AnalyzeAll(Tail(files), pat)}

PatternProjects(directory, pat) ==
    UNION {AnalyzeAll(files, pat) : files \in Orderings(RGlob(directory, pat.pattern))}

RECURSIVE DetectFrom(_, _)
DetectFrom(directory, k) ==
    IF k > Len(daw_patterns) THEN {<<>>}
    ELSE {head \o rest : head \in PatternProjects(directory, daw_patterns[k]),
                         rest \in DetectFrom(directory, k + 1)}

\* the lists detect_daw_projects(directory) may return
detect_daw_projects(directory) ==
    IF ~Exists(directory) THEN {<<>>} ELSE DetectFrom(directory, 1)

----------------------------------------------------------------------------
(* The catalog: the three tables of setup_database *)

\* the text CURRENT_DATE and the date adapter store for day number k
DateText(k) == IsoFormat(DateOf(k))

\* INTEGER PRIMARY KEY without a value: one more than the largest rowid
NextId(rows) == Len(rows) + 1

\* (mutant) the table without its UNIQUE constraint
RawPathTaken_never(rows, path) == FALSE

\* UNIQUE(project_file_path) of raw_projects
RawPathTaken(rows, path) == \E i \in 1..Len(rows) : rows[i].project_file_path = path

RawRow(rows, project, day) ==
    [id                  |-> NextId(rows),
     project_file_path   |-> project.project_file_path,
     project_folder_path |-> project.project_folder_path,
     daw_type            |-> project.daw_type,
     detected_title      |-> project.detected_title,
     file_size_mb        |-> project.file_size_mb,
     date_created        |-> Some(IsoFormat(project.date_created)),
     date_modified       |-> Some(IsoFormat(project.date_modified)),
     date_discovered     |-> DateText(day),
     additional_files    |-> project.additional_files,
     notes               |-> None]

\* (mutant) added_count is incremented for a candidate whose INSERT failed as well
InsertRaw_counted(rows, project, day) ==
    IF RawPathTaken(rows, project.project_file_path)
    THEN [rows |-> rows, inserted |-> TRUE]
    ELSE [rows |-> Append(rows, RawRow(rows, project, day)), inserted |-> TRUE]

\* (mutant) INSERT ... ON CONFLICT DO UPDATE: a known path has its row rewritten
InsertRaw_upsert(rows, project, day) ==
    IF RawPathTaken(rows, project.project_file_path)
    THEN LET i == CHOOSE k \in 1..Len(rows) :
                    rows[k].project_file_path = project.project_file_path
         IN  [rows |-> [rows EXCEPT ![i] =
                          [RawRow(rows, project, day) EXCEPT !.id = rows[i].id]],
              inserted |-> FALSE]
    ELSE [rows |-> Append(rows, RawRow(rows, project, day)), inserted |-> TRUE]

\* one INSERT INTO raw_projects: the row is appended, or the statement fails with
\* sqlite3.IntegrityError (the path is taken) and the table is left as it was
InsertRaw(rows, project, day) ==
    IF RawPathTaken(rows, project.project_file_path)
    THEN [rows |-> rows, inserted |-> FALSE]
    ELSE [rows |-> Append(rows, RawRow(rows, project, day)), inserted |-> TRUE]

\* the insert loop of add_directory over the list `projects`
\* (mutant) the try statement around the whole loop: the first candidate whose
\* path is taken ends the batch
RECURSIVE InsertLoop_stops(_, _, _, _)
InsertLoop_stops(rows, projects, day, added_count) ==
    IF Len(projects) = 0 THEN [rows |-> rows, added_count |-> added_count]
    ELSE LET r == InsertRaw(rows, Head(projects), day)
         IN  IF r.inserted
             THEN InsertLoop_stops(r.rows, Tail(projects), day, added_count + 1)
             ELSE [rows |-> rows, added_count |-> added_count]

RECURSIVE InsertLoop(_, _, _, _)
InsertLoop(rows, projects, day, added_count) ==
    IF Len(projects) = 0 THEN [rows |-> rows, added_count |-> added_count]
    ELSE LET r == InsertRaw(rows, Head(projects), day)
         IN  InsertLoop(r.rows, Tail(projects), day,
                        IF r.inserted THEN added_count + 1 ELSE added_count)

\* (mutant) the CHECK without its lower limit
RatingCheck_no_lower(rating) == IsNone(rating) \/ Val(rating) <= 10

\* (mutant) the column without its CHECK
RatingCheck_none(rating) == TRUE

\* CHECK(rating >= 1 AND rating <= 10); a NULL rating passes
RatingCheck(rating) == IsNone(rating) \/ (Val(rating) >= 1 /\ Val(rating) <= 10)

----------------------------------------------------------------------------
(* The outcome of a call *)

\* op(arg) was called; it returned ret ("raised": it raised instead) and printed
\* msg.  An add_directory found `found` candidates and returned `added`; rescan:
\* the call before it scanned the same directory, and neither the disk nor the
\* day changed in between.  value: the dict a lookup or an analysis returned.
Outcome(op, arg, ret, msg) ==
    [op |-> op, arg |-> arg, ret |-> ret, msg |-> msg, found |-> 0, added |-> 0,
     rescan |-> FALSE, value |-> None]

ScanOutcome(arg, found, added, msg) ==
    [op |-> "add_directory", arg |-> arg, ret |-> "int", msg |-> msg, found |-> found,
     added |-> added, rescan |-> (last.op = "add_directory" /\ last.arg = arg),
     value |-> None]

\* op(arg) returned the dict `value` holds, or None
Returned(op, arg, value) ==
    [Outcome(op, arg, IF IsNone(value) THEN "None" ELSE "dict", "") EXCEPT !.value = value]

\* nothing was called yet
NoCall == Outcome("none", "", "None", "")

\* something other than a call of the tracker happened (the disk or the day changed)
Environment == Outcome("environment", "", "None", "")

----------------------------------------------------------------------------
(* Lookup: show_project_details *)

\* characters in ASCII order, for the comparison ORDER BY makes on date text
AsciiOrder == "-0123456789"
CharRank(c) == CHOOSE i \in 1..Len(AsciiOrder) : CharAt(AsciiOrder, i) = c

RECURSIVE TextLess(_, _)
\* a sorts before b as text
TextLess(a, b) ==
    IF Len(b) = 0 THEN FALSE
    ELSE IF Len(a) = 0 THEN TRUE
    ELSE IF CharAt(a, 1) = CharAt(b, 1)
         THEN TextLess(SubSeq(a, 2, Len(a)), SubSeq(b, 2, Len(b)))
    ELSE CharRank(CharAt(a, 1)) < CharRank(CharAt(b, 1))

\* text LIKE '%fragment%' (ASCII case-insensitive; the fragments used hold no % or _)
Like(text, fragment) == Contains(Lower(fragment), Lower(text))

Rows(table) == {table[i] : i \in 1..Len(table)}

DateDiscovered(r) == r.date_discovered
DateRefined(r) == r.date_refined

\* (mutant) ORDER BY date_discovered without DESC: the oldest row
MostRecentDiscovered_oldest(rows) ==
    {r \in rows : \A o \in rows : ~TextLess(DateDiscovered(o), DateDiscovered(r))}

\* ORDER BY date_discovered DESC LIMIT 1: any row none of the others is more recent than
MostRecentDiscovered(rows) ==
    {r \in rows : \A o \in rows : ~TextLess(DateDiscovered(r), DateDiscovered(o))}

\* ORDER BY date_refined DESC LIMIT 1
MostRecentRefined(rows) ==
    {r \in rows : \A o \in rows : ~TextLess(DateRefined(r), DateRefined(o))}

\* (mutant) a number is looked up in refined_projects first
show_project_details_refined_first(identifier) ==
    IF IsDigit(identifier)
    THEN LET raw_id == StrToNat(identifier)
             result == {r \in Rows(refined_projects) : r.id = raw_id}
         IN  IF result # {}
             THEN {[source_table |-> "refined", row |-> r] : r \in result}
             ELSE {[source_table |-> "raw", row |-> r] :
                      r \in {x \in Rows(raw_projects) : x.id = raw_id}}
    ELSE LET result == {r \in Rows(raw_projects) : Like(r.detected_title, identifier)}
         IN  IF result # {}
             THEN {[source_table |-> "raw", row |-> r] : r \in MostRecentDiscovered(result)}
             ELSE {[source_table |-> "refined", row |-> r] :
                      r \in MostRecentRefined({x \in Rows(refined_projects) : Like(x.title, identifier)})}

\* the values show_project_details(identifier) may return ({}: it returns None);
\* identifier is the text str(identifier)
show_project_details(identifier) ==
    IF IsDigit(identifier)
    THEN LET raw_id == StrToNat(identifier)
             result == {r \in Rows(raw_projects) : r.id = raw_id}
         IN  IF result # {}
             THEN {[source_table |-> "raw", row |-> r] : r \in result}
             ELSE {[source_table |-> "refined", row |-> r] :
                      r \in {x \in Rows(refined_projects) : x.id = raw_id}}
    ELSE LET result == {r \in Rows(raw_projects) : Like(r.detected_title, identifier)}
         IN  IF result # {}
             THEN {[source_table |-> "raw", row |-> r] : r \in MostRecentDiscovered(result)}
             ELSE {[source_table |-> "refined", row |-> r] :
                      r \in MostRecentRefined({x \in Rows(refined_projects) : Like(x.title, identifier)})}

----------------------------------------------------------------------------
(* Promotion: refine_project *)

\* **metadata: a key that is not passed is None
NoMetadata ==
    [title |-> None, description |-> None, genre |-> None, bpm |-> None,
     key_signature |-> None, year |-> None, status |-> None, rating |-> None,
     tags |-> None, collaboration |-> None]

\* `not year` holds for None and for 0
Falsy(o) == IsNone(o) \/ Val(o) = 0

\* the row the INSERT INTO refined_projects of refine_project writes
RefinedRow(rows, raw_id, metadata, raw_project, day) ==
    [id                  |-> NextId(rows),
     raw_project_id      |-> raw_id,
     title               |-> IF IsNone(metadata.title) THEN raw_project.detected_title
                             ELSE Val(metadata.title),
     description         |-> metadata.description,
     genre               |-> metadata.genre,
     bpm                 |-> metadata.bpm,
     key_signature       |-> metadata.key_signature,
     year                |-> IF Falsy(metadata.year) /\ ~IsNone(raw_project.date_created)
                             THEN Some(StrToNat(SubSeq(Val(raw_project.date_created), 1, 4)))
                             ELSE metadata.year,
     status              |-> IF IsNone(metadata.status) THEN "complete" ELSE Val(metadata.status),
     rating              |-> metadata.rating,
     tags                |-> IF IsNone(metadata.tags) THEN None
                             ELSE Some(JsonDumps(Val(metadata.tags))),
     collaboration       |-> metadata.collaboration,
     project_file_path   |-> raw_project.project_file_path,
     project_folder_path |-> raw_project.project_folder_path,
     daw_type            |-> raw_project.daw_type,
     file_size_mb        |-> raw_project.file_size_mb,
     date_created        |-> raw_project.date_created,
     date_refined        |-> DateText(day)]

\* what the try block of refine_project raises, "" when it raises nothing: the
\* looked-up dict has no 'detected_title' (it is a row of refined_projects), or
\* the INSERT violates the CHECK on rating
RefineError(found, metadata) ==
    IF found.source_table # "raw" THEN "KeyError: 'detected_title'"
    ELSE IF ~RatingCheck(metadata.rating) THEN "CHECK constraint failed"
    ELSE ""

\* (mutant) INSERT OR REPLACE keyed on raw_project_id: a second promotion of an id
\* removes the curated row the first one wrote
refine_project_replace(op, raw_id, metadata) ==
    LET ident == IntToStr(raw_id)
        found == show_project_details(ident)
        kept == SelectSeq(refined_projects, LAMBDA r : r.raw_project_id # raw_id)
    IN  IF found = {}
        THEN /\ last' = Outcome(op, ident, "False", "Raw project not found")
             /\ UNCHANGED refined_projects
        ELSE \E raw_project \in found :
                IF RefineError(raw_project, metadata) # ""
                THEN /\ last' = Outcome(op, ident, "False", RefineError(raw_project, metadata))
                     /\ UNCHANGED refined_projects
                ELSE /\ refined_projects' =
                            Append(kept, RefinedRow(refined_projects, raw_id, metadata,
                                                    raw_project.row, today))
                     /\ last' = Outcome(op, ident, "True", "Refined project")

\* refine_project(raw_id, **metadata), called as `op`: what it returns and
\* prints, and the table it leaves
refine_project(op, raw_id, metadata) ==
    LET ident == IntToStr(raw_id)
        found == show_project_details(ident)
    IN  IF found = {}
        THEN /\ last' = Outcome(op, ident, "False", "Raw project not found")
             /\ UNCHANGED refined_projects
        ELSE \E raw_project \in found :
                IF RefineError(raw_project, metadata) # ""
                THEN /\ last' = Outcome(op, ident, "False", RefineError(raw_project, metadata))
                     /\ UNCHANGED refined_projects
                ELSE /\ refined_projects' =
                            Append(refined_projects,
                                   RefinedRow(refined_projects, raw_id, metadata,
                                              raw_project.row, today))
                     /\ last' = Outcome(op, ident, "True", "Refined project")

----------------------------------------------------------------------------
(* Text the command line and the prompts hand over *)

RECURSIVE Strip(_)
\* str.strip() of blanks
Strip(s) ==
    IF Len(s) = 0 THEN s
    ELSE IF CharAt(s, 1) = " " THEN Strip(SubSeq(s, 2, Len(s)))
    ELSE IF CharAt(s, Len(s)) = " " THEN Strip(SubSeq(s, 1, Len(s) - 1))
    ELSE s

RECURSIVE SplitComma(_)
\* s.split(',')
SplitComma(s) ==
    IF \E i \in 1..Len(s) : CharAt(s, i) = ","
    THEN LET i == CHOOSE k \in 1..Len(s) :
                    CharAt(s, k) = "," /\ \A j \in 1..(k - 1) : CharAt(s, j) # ","
         IN  <<SubSeq(s, 1, i - 1)>> \o SplitComma(SubSeq(s, i + 1, Len(s)))
    ELSE <<s>>

\* [t.strip() for t in s.split(',')]
TagList(s) == LET parts == SplitComma(s) IN [i \in 1..Len(parts) |-> Strip(parts[i])]

\* a text option or answer that is empty or missing leaves its key out
Given(text) == IF IsNone(text) \/ Val(text) = "" THEN None ELSE text

----------------------------------------------------------------------------
(* What callers pass *)

\* the ids a caller may name
RefineIds == (0 - 1)..2

\* metadata of direct calls of refine_project
MetadataInputs ==
    { NoMetadata,
      [NoMetadata EXCEPT !.rating = Some(10), !.title = Some("Remix"),
                         !.tags = Some(<<"house", "demo">>)],
      [NoMetadata EXCEPT !.rating = Some(0)],
      [NoMetadata EXCEPT !.rating = Some(11)] }

\* the options of the refine command as argparse leaves them (--status defaults
\* to 'complete')
NoArgs ==
    [title |-> None, description |-> None, genre |-> None, bpm |-> None, key |-> None,
     status |-> Some("complete"), rating |-> None, tags |-> None]

ArgsInputs ==
    { NoArgs,
      [NoArgs EXCEPT !.rating = Some(0)],
      [NoArgs EXCEPT !.rating = Some(1)],
      [NoArgs EXCEPT !.rating = Some(11)],
      [NoArgs EXCEPT !.rating = Some(10), !.title = Some("Remix"),
                     !.tags = Some("house, demo")] }

\* the answers typed at the prompts of _interactive_refine
NoAnswers ==
    [title |-> "", description |-> "", genre |-> "", status |-> "", rating |-> "",
     tags |-> ""]

AnswersInputs ==
    { NoAnswers,
      [NoAnswers EXCEPT !.rating = "0"],
      [NoAnswers EXCEPT !.rating = "1"],
      [NoAnswers EXCEPT !.rating = "11"],
      [NoAnswers EXCEPT !.rating = "-1"] }

ReasonInputs == {"Not useful", "duplicate"}

\* the paths _should_skip_file is asked about: clean ones, ones below a
\* directory that carries a marker, ones whose own name carries one
ClassifierInputs ==
    { <<"music", "sub", "Take-1.flp">>,
      <<"music", "Song", "Song.song">>,
      <<"music", "Backup", "Old.flp">>,
      <<"music", "My Temp", "a.flp">>,
      <<"tmp", "music", "a.logicx">>,
      <<"music", "sub", "a_BAK.flp">>,
      <<"music", "sub", "Set [2024-05-25 151417].bwproject">>,
      <<"music", "sub", "a~.song">>,
      <<"music", "sub", "Template.flp">>,
      <<"music", "sub", "Recovery.logicx">> }

\* metadata of direct calls that is about the year
YearInputs ==
    { NoMetadata,
      [NoMetadata EXCEPT !.year = Some(1999), !.title = Some("Remix")],
      [NoMetadata EXCEPT !.year = Some(0)] }

\* the options of the list command: --limit, --offset, --daw
ListLimits == {1, 20}
ListOffsets == {0, 1}
DawFilters == {None, Some("FL")}

\* the ids the show and open commands are given, and their text
FetchIds == 1..3
IdText == [id \in FetchIds |-> IntToStr(id)]

\* the title fragments a caller may look up
Fragments == {"so", "remix", "zzz"}

----------------------------------------------------------------------------
(* The operations *)

Init ==
    /\ fs = [f \in ProjectFiles |->
                IF f \in InitialFiles
                THEN Some([size |-> SizeA, ctime |-> 0, mtime |-> 0, err |-> FALSE])
                ELSE None]
    /\ assets = InitialAssets
    /\ today = 0
    /\ raw_projects = <<>>
    /\ refined_projects = <<>>
    /\ rejected_projects = <<>>
    /\ last = NoCall

\* (mutant) a directory that does not exist makes the scan raise
AddDirectory_raises(directory) ==
    /\ IF ~Exists(directory)
       THEN /\ last' = Outcome("add_directory", PathText[directory], "raised",
                               "FileNotFoundError")
            /\ UNCHANGED raw_projects
       ELSE \E projects \in detect_daw_projects(directory) :
              IF Len(projects) = 0
              THEN /\ last' = ScanOutcome(PathText[directory], 0, 0, "No DAW projects found")
                   /\ UNCHANGED raw_projects
              ELSE LET done == InsertLoop(raw_projects, projects, today, 0)
                   IN  /\ raw_projects' = done.rows
                       /\ last' = ScanOutcome(PathText[directory], Len(projects),
                                              done.added_count, "Added")
    /\ UNCHANGED <<fs, assets, today, refined_projects, rejected_projects>>

\* add_directory(directory)
AddDirectory(directory) ==
    /\ \E projects \in detect_daw_projects(directory) :
          IF Len(projects) = 0
          THEN /\ last' = ScanOutcome(PathText[directory], 0, 0,
                                      IF Exists(directory) THEN "No DAW projects found"
                                      ELSE "Directory not found")
               /\ UNCHANGED raw_projects
          ELSE LET done == InsertLoop(raw_projects, projects, today, 0)
               IN  /\ raw_projects' = done.rows
                   /\ last' = ScanOutcome(PathText[directory], Len(projects),
                                          done.added_count, "Added")
    /\ UNCHANGED <<fs, assets, today, refined_projects, rejected_projects>>

\* tracker.refine_project(raw_id, **metadata), called directly
RefineProject(raw_id, metadata) ==
    /\ Len(refined_projects) < MaxRefined
    /\ refine_project("refine_project", raw_id, metadata)
    /\ UNCHANGED <<fs, assets, today, raw_projects, rejected_projects>>

\* the metadata main() builds for the refine command: only the options that are
\* truthy get a key
MainMetadata(args) ==
    [title         |-> Given(args.title),
     description   |-> Given(args.description),
     genre         |-> Given(args.genre),
     bpm           |-> IF Falsy(args.bpm) THEN None ELSE args.bpm,
     key_signature |-> Given(args.key),
     year          |-> None,
     status        |-> Given(args.status),
     rating        |-> IF Falsy(args.rating) THEN None ELSE args.rating,
     tags          |-> IF IsNone(Given(args.tags)) THEN None ELSE Some(TagList(Val(args.tags))),
     collaboration |-> None]

\* main(): the refine command
MainRefine(id, args) ==
    /\ Len(refined_projects) < MaxRefined
    /\ refine_project("refine", id, MainMetadata(args))
    /\ UNCHANGED <<fs, assets, today, raw_projects, rejected_projects>>

\* the metadata _interactive_refine builds from the answers
AnswersMetadata(answers) ==
    [title         |-> Given(Some(Strip(answers.title))),
     description   |-> Given(Some(Strip(answers.description))),
     genre         |-> Given(Some(Strip(answers.genre))),
     bpm           |-> None,
     key_signature |-> None,
     year          |-> None,
     status        |-> IF Strip(answers.status) = "" THEN Some("complete")
                       ELSE Some(Strip(answers.status)),
     rating        |-> LET rating_input == Strip(answers.rating)
                       IN  IF IsDigit(rating_input)
                              /\ 1 <= StrToNat(rating_input) /\ StrToNat(rating_input) <= 10
                           THEN Some(StrToNat(rating_input))
                           ELSE None,
     tags          |-> IF Strip(answers.tags) = "" THEN None
                       ELSE Some(TagList(Strip(answers.tags))),
     collaboration |-> None]

\* tracker._interactive_refine(raw_id): it subscripts what show_project_details
\* returned before asking anything, so None (TypeError) and a row of
\* refined_projects (KeyError: 'detected_title') make it raise
InteractiveRefine(raw_id, answers) ==
    /\ Len(refined_projects) < MaxRefined
    /\ LET found == show_project_details(IntToStr(raw_id))
       IN  IF found = {}
           THEN /\ last' = Outcome("_interactive_refine", IntToStr(raw_id), "raised",
                                   "TypeError")
                /\ UNCHANGED refined_projects
           ELSE IF \E p \in found : p.source_table # "raw"
           THEN /\ last' = Outcome("_interactive_refine", IntToStr(raw_id), "raised",
                                   "KeyError: 'detected_title'")
                /\ UNCHANGED refined_projects
           ELSE refine_project("_interactive_refine", raw_id, AnswersMetadata(answers))
    /\ UNCHANGED <<fs, assets, today, raw_projects, rejected_projects>>

\* (mutant) the reject command with the statements after open_project's last
\* return as the body of a method reject_project(raw_id, reason)
MainReject_defined(raw_id, reason) ==
    /\ Len(rejected_projects) < MaxRefined
    /\ LET ident == IntToStr(raw_id)
           found == show_project_details(ident)
       IN  IF found = {}
           THEN /\ last' = Outcome("reject", ident, "False", "Raw project not found")
                /\ UNCHANGED rejected_projects
           ELSE \E raw_project \in found :
                   IF raw_project.source_table # "raw"
                   THEN /\ last' = Outcome("reject", ident, "False", "KeyError: 'detected_title'")
                        /\ UNCHANGED rejected_projects
                   ELSE /\ rejected_projects' =
                               Append(rejected_projects,
                                      [id                |-> NextId(rejected_projects),
                                       raw_project_id    |-> raw_id,
                                       reason            |-> reason,
                                       project_file_path |-> raw_project.row.project_file_path,
                                       detected_title    |-> raw_project.row.detected_title,
                                       daw_type          |-> raw_project.row.daw_type,
                                       date_rejected     |-> DateText(today)])
                        /\ last' = Outcome("reject", ident, "True", "Rejected")
    /\ UNCHANGED <<fs, assets, today, raw_projects, refined_projects>>

\* main(): the reject command.  MusicTracker has no attribute reject_project (the
\* statements that would be its body follow the last return of open_project),
\* so the call raises AttributeError before anything is read or written
MainReject(id, reason) ==
    /\ last' = Outcome("reject", IntToStr(id), "raised", "AttributeError")
    /\ UNCHANGED <<fs, assets, today, raw_projects, refined_projects, rejected_projects>>

\* interactive_review(limit): its first statement calls self.list_raw_projects,
\* which MusicTracker does not have either
InteractiveReview(limit) ==
    /\ last' = Outcome("review", "", "raised", "AttributeError")
    /\ UNCHANGED <<fs, assets, today, raw_projects, refined_projects, rejected_projects>>

\* main(): the list command.  Its only statement that touches the catalog is
\* tracker.list_raw_projects(args.limit, args.offset, args.daw), and MusicTracker
\* has no attribute list_raw_projects (the statements that would be its body
\* follow the return of list_refined_projects): the command raises
\* AttributeError and prints no record
MainList(limit, offset, daw_filter) ==
    /\ last' = Outcome("list",
                       NatToStr(limit) \o "," \o NatToStr(offset) \o ","
                          \o (IF IsNone(daw_filter) THEN "" ELSE Val(daw_filter)),
                       "raised", "AttributeError")
    /\ UNCHANGED <<fs, assets, today, raw_projects, refined_projects, rejected_projects>>

\* tracker.show_project_details(identifier), identifier a title fragment or the
\* text of a number; the dict is
\* the row and its source_table (additional_files left as the text stored)
ShowProjectDetails(identifier) ==
    /\ LET found == show_project_details(identifier)
       IN  IF found = {}
           THEN last' = Returned("show_project_details", identifier, None)
           ELSE \E project_data \in found :
                   last' = Returned("show_project_details", identifier, Some(project_data))
    /\ UNCHANGED <<fs, assets, today, raw_projects, refined_projects, rejected_projects>>

\* tracker.open_project(identifier): the file of the record looked up is handed
\* to the system's opener, which may fail; value: the path handed over
OpenProject(identifier) ==
    /\ LET project_details == show_project_details(identifier)
       IN  IF project_details = {}
           THEN last' = Outcome("open_project", identifier, "False", "Project not found")
           ELSE \E details \in project_details :
                   LET project_path == details.row.project_file_path
                   IN  IF ~\E f \in ProjectFiles : PathText[f] = project_path /\ Exists(f)
                       THEN last' = Outcome("open_project", identifier, "False",
                                            "Project file not found")
                       ELSE \/ last' = [Outcome("open_project", identifier, "True", "Opened")
                                        EXCEPT !.value = Some(project_path)]
                            \/ last' = [Outcome("open_project", identifier, "False",
                                                "Failed to open project")
                                        EXCEPT !.value = Some(project_path)]
    /\ UNCHANGED <<fs, assets, today, raw_projects, refined_projects, rejected_projects>>

\* tracker.detect_daw_projects(directory), called on its own: the list returned
DetectDawProjects(directory) ==
    /\ \E projects \in detect_daw_projects(directory) :
          last' = [Outcome("detect_daw_projects", PathText[directory], "list",
                           IF Exists(directory) THEN "Scanning" ELSE "Directory not found")
                   EXCEPT !.value = Some(projects)]
    /\ UNCHANGED <<fs, assets, today, raw_projects, refined_projects, rejected_projects>>

\* str(p) and _should_skip_file(p) of every path the classifier is asked about
\* (computed once)
Classified ==
    [p \in ClassifierInputs |-> [text |-> PathStr(p), skip |-> _should_skip_file(p)]]

\* tracker._should_skip_file(project_file)
ShouldSkipFile(project_file) ==
    /\ last' = Outcome("_should_skip_file", Classified[project_file].text,
                       IF Classified[project_file].skip THEN "True" ELSE "False", "")
    /\ UNCHANGED <<fs, assets, today, raw_projects, refined_projects, rejected_projects>>

\* the entry of daw_patterns whose pattern the name of project_file ends with
PatternOf(project_file) ==
    daw_patterns[CHOOSE k \in 1..Len(daw_patterns) :
                    project_file \in NameMatches[daw_patterns[k].pattern]]

\* tracker._analyze_project_file(project_file, daw_name, pattern), as
\* detect_daw_projects calls it for a file rglob yielded
AnalyzeProjectFile(project_file) ==
    /\ Exists(project_file)
    /\ LET pat == PatternOf(project_file)
           infos == _analyze_project_file(project_file, pat.daw_name, pat.pattern)
       IN  IF infos = {}
           THEN last' = Returned("_analyze_project_file", PathText[project_file], None)
           ELSE \E project_info \in infos :
                   last' = Returned("_analyze_project_file", PathText[project_file],
                                    Some(project_info))
    /\ UNCHANGED <<fs, assets, today, raw_projects, refined_projects, rejected_projects>>

----------------------------------------------------------------------------
(* The environment: the disk and the calendar *)

\* a project file is saved again: its size and modification day change
EditFile(f) ==
    /\ fs[f] # None
    /\ fs' = [fs EXCEPT ![f] = Some([size  |-> IF Val(fs[f]).size = SizeA THEN SizeB ELSE SizeA,
                                     ctime |-> Val(fs[f]).ctime,
                                     mtime |-> today,
                                     err   |-> Val(fs[f]).err])]
    /\ last' = Environment
    /\ UNCHANGED <<assets, today, raw_projects, refined_projects, rejected_projects>>

\* a file beside a project file is written or removed
ToggleAsset(a) ==
    /\ assets' = IF a \in assets THEN assets \ {a} ELSE assets \cup {a}
    /\ last' = Environment
    /\ UNCHANGED <<fs, today, raw_projects, refined_projects, rejected_projects>>

\* a project file is deleted
RemoveFile(f) ==
    /\ fs[f] # None
    /\ fs' = [fs EXCEPT ![f] = None]
    /\ last' = Environment
    /\ UNCHANGED <<assets, today, raw_projects, refined_projects, rejected_projects>>

\* midnight passes
Tick ==
    /\ today + 1 \in Days
    /\ today' = today + 1
    /\ last' = Environment
    /\ UNCHANGED <<fs, assets, raw_projects, refined_projects, rejected_projects>>

----------------------------------------------------------------------------
(* Specifications *)

\* the catalog's operations, every caller's, on a disk that does not change
Next ==
    \/ \E directory \in ScanRoots : AddDirectory(directory)
    \/ \E raw_id \in RefineIds, metadata \in MetadataInputs : RefineProject(raw_id, metadata)
    \/ \E id \in RefineIds, args \in ArgsInputs : MainRefine(id, args)
    \/ \E raw_id \in RefineIds, answers \in AnswersInputs : InteractiveRefine(raw_id, answers)
    \/ \E id \in RefineIds, reason \in ReasonInputs : MainReject(id, reason)
    \/ \E limit \in {10} : InteractiveReview(limit)

Spec == Init /\ [][Next]_vars

\* scans, promotions and discards while files are saved, assets come and go
\* and days pass
NextDiscovery ==
    \/ \E directory \in ScanRoots : AddDirectory(directory)
    \/ \E raw_id \in RefineIds :
          Len(refined_projects) < MaxPromoted /\ RefineProject(raw_id, NoMetadata)
    \/ \E id \in RefineIds, reason \in ReasonInputs : MainReject(id, reason)
    \/ \E f \in EditedFiles : EditFile(f)
    \/ \E a \in PassingAssets : ToggleAsset(a)
    \/ Tick

SpecDiscovery == Init /\ [][NextDiscovery]_vars

\* the catalog over several days: scans of a directory and of the one above it,
\* promotions with and without a year, lookups by title, listings
CatalogFiles == {TakeFlp, SoloLogic, SongFile}
CatalogRoots == {<<"music", "sub">>, <<"music">>}

InitCatalog ==
    /\ fs = [f \in ProjectFiles |->
                IF f \in CatalogFiles
                THEN Some([size |-> SizeA, ctime |-> 0, mtime |-> 0, err |-> FALSE])
                ELSE None]
    /\ assets = {SongWav}
    /\ today = 0
    /\ raw_projects = <<>>
    /\ refined_projects = <<>>
    /\ rejected_projects = <<>>
    /\ last = NoCall

NextCatalog ==
    \/ \E directory \in CatalogRoots : AddDirectory(directory)
    \/ \E raw_id \in RefineIds, metadata \in YearInputs :
          Len(refined_projects) < MaxPromoted /\ RefineProject(raw_id, metadata)
    \/ \E identifier \in Fragments : ShowProjectDetails(identifier)
    \/ \E limit \in ListLimits, offset \in ListOffsets, daw_filter \in DawFilters :
          MainList(limit, offset, daw_filter)
    \/ Tick

SpecCatalog == InitCatalog /\ [][NextCatalog]_vars

\* the scanner on its own: the classifier, the resolver and whole scans, on
\* disks that hold every project file, one of them possibly unreadable, and any
\* of the other files
UnreadableSets == {{}, {SoloLogic}, {SongFile}}

InitScanner ==
    /\ \E unreadable \in UnreadableSets :
          fs = [f \in ProjectFiles |->
                   Some([size |-> SizeA, ctime |-> 0, mtime |-> 0, err |-> f \in unreadable])]
    /\ assets \in SUBSET AssetFiles
    /\ today = 0
    /\ raw_projects = <<>>
    /\ refined_projects = <<>>
    /\ rejected_projects = <<>>
    /\ last = NoCall

NextScanner ==
    \/ \E project_file \in ClassifierInputs : ShouldSkipFile(project_file)
    \/ \E project_file \in ProjectFiles : AnalyzeProjectFile(project_file)
    \/ \E directory \in ScanRoots : DetectDawProjects(directory)
    \/ \E directory \in ScanRoots : AddDirectory(directory)

SpecScanner == InitScanner /\ [][NextScanner]_vars

\* lookups by number: scans, promotions (repeated ones too), the show and open
\* commands, on a disk a project file may vanish from
RemovedFiles == {TakeFlp}

NextFetch ==
    \/ \E directory \in CatalogRoots : AddDirectory(directory)
    \/ \E raw_id \in FetchIds : RefineProject(raw_id, NoMetadata)
    \/ \E id \in FetchIds : ShowProjectDetails(IdText[id])
    \/ \E id \in FetchIds : OpenProject(IdText[id])
    \/ \E f \in RemovedFiles : RemoveFile(f)

SpecFetch == Init /\ [][NextFetch]_vars

----------------------------------------------------------------------------
(* The lifecycle of a discovered record *)

RawIds == {raw_projects[i].id : i \in 1..Len(raw_projects)}

\* the rows of refined_projects / rejected_projects that refer to id
CuratedRows(id) == {r \in Rows(refined_projects) : r.raw_project_id = id}
DiscardedRows(id) == {r \in Rows(rejected_projects) : r.raw_project_id = id}

Curated(id) == CuratedRows(id) # {}
Discarded(id) == DiscardedRows(id) # {}

\* a discovered record neither promoted nor discarded
Discovered(id) == id \in RawIds /\ ~Curated(id) /\ ~Discarded(id)

Tables == <<raw_projects, refined_projects, rejected_projects>>

\* the call `last` records named id
Named(id) == last.arg = IntToStr(id)

----------------------------------------------------------------------------
(* C1..C10 *)

C2_CrossTransitionRefused ==
    [][\A id \in RawIds :
          /\ Curated(id) =>
                \A reason \in ReasonInputs :
                   MainReject(id, reason) =>
                      (last'.ret = "False" /\ rejected_projects' = rejected_projects)
          /\ Discarded(id) =>
                \A metadata \in MetadataInputs :
                   RefineProject(id, metadata) =>
                      (last'.ret = "False" /\ refined_projects' = refined_projects)]_vars

\* C3 (as claimed): the curated set holds at most one record per discovered id.
C3_PromotedOnce ==
    \A id \in RawIds : Cardinality(CuratedRows(id)) <= 1

\* C4: add_directory(D) run straight after add_directory(D), the disk and the
\* day unchanged in between, returns 0 and leaves the discovered set as it was.
C4_RescanAddsNothing ==
    [][\A directory \in ScanRoots :
          (last.op = "add_directory" /\ last.arg = PathText[directory]
             /\ AddDirectory(directory))
          => (last'.added = 0 /\ raw_projects' = raw_projects)]_vars

\* C4 witness: a second scan in succession that found candidates.
C4_Witness ==
    last.op = "add_directory" /\ last.rescan /\ last.found > 0 /\ Len(raw_projects) > 0

\* C5: no two discovered records share a path, and a scan whose candidates
\* exist already returns its count instead of raising.
C5_PathsUnique ==
    /\ \A i, j \in 1..Len(raw_projects) :
          raw_projects[i].project_file_path = raw_projects[j].project_file_path => i = j
    /\ last.op = "add_directory" => (last.ret = "int" /\ last.added <= last.found)

\* C5 witness: a scan of the nested directory after one of its parent: its
\* candidate was there already and was reported, not added.
C5_Witness ==
    /\ Len(raw_projects) = 2
    /\ last.op = "add_directory" /\ last.arg = PathText[<<"music", "sub">>]
    /\ last.found = 1 /\ last.added = 0

\* C6: refine_project with rating 0 or 11 on an existing discovered record
\* returns False and leaves the three tables unchanged.
C6_BadRatingRefused ==
    [][\A raw_id \in RawIds : \A metadata \in MetadataInputs :
          (metadata.rating \in {Some(0), Some(11)} /\ RefineProject(raw_id, metadata))
          => (last'.ret = "False" /\ Tables' = Tables)]_vars

\* C6 witness: a direct promotion of an existing record that the CHECK stopped.
C6_Witness ==
    /\ last.op = "refine_project" /\ last.ret = "False"
    /\ last.msg = "CHECK constraint failed"
    /\ \E id \in RawIds : Named(id)

\* C7: every curated record's rating is null or an integer in 1..10.
C7_RatingInRange ==
    \A r \in Rows(refined_projects) : IsNone(r.rating) \/ Val(r.rating) \in 1..10

\* C7 witness: curated records with and without a rating, the last written by
\* the interactive prompts.
C7_Witness ==
    /\ \E r \in Rows(refined_projects) : r.rating = Some(10)
    /\ \E r \in Rows(refined_projects) : IsNone(r.rating)
    /\ last.op = "_interactive_refine" /\ last.ret = "True"

\* C8 (as claimed): refine_project of an id no discovered record has returns
\* False and leaves the three tables unchanged.
C8_UnknownIdRefused ==
    [][\A raw_id \in RefineIds \ RawIds : \A metadata \in MetadataInputs :
          RefineProject(raw_id, metadata) => (last'.ret = "False" /\ Tables' = Tables)]_vars

\* C9 (as claimed): the reject command on a record in state Discovered succeeds
\* and adds exactly one discarded record: back-reference, reason, path, title
\* and format as given and as the discovered record has them.
C9_DiscardCreatesRecord ==
    [][\A id \in RawIds : \A reason \in ReasonInputs :
          (Discovered(id) /\ MainReject(id, reason))
          => /\ last'.ret = "True"
             /\ Len(rejected_projects') = Len(rejected_projects) + 1
             /\ \E r \in Rows(raw_projects) :
                   /\ r.id = id
                   /\ LET d == rejected_projects'[Len(rejected_projects')]
                      IN  /\ d.raw_project_id = id
                          /\ d.reason = reason
                          /\ d.project_file_path = r.project_file_path
                          /\ d.detected_title = r.detected_title
                          /\ d.daw_type = r.daw_type]_vars

\* C10: no step changes or removes an existing row of raw_projects.
C10_DiscoveredImmutable ==
    [][/\ Len(raw_projects') >= Len(raw_projects)
       /\ \A i \in 1..Len(raw_projects) : raw_projects'[i] = raw_projects[i]]_vars

\* C10 witness: the Song project was saved again after it was discovered, then
\* promoted, and the last call was a scan that found it again.
C10_Witness ==
    /\ \E r \in Rows(raw_projects) :
          /\ r.project_file_path = PathText[SongFile]
          /\ r.file_size_mb # FileSizeMb(Val(fs[SongFile]).size)
          /\ Curated(r.id)
    /\ last.op = "add_directory" /\ last.found > last.added

----------------------------------------------------------------------------
(* C11..C20 *)

IsPrefix(s, t) == Len(s) <= Len(t) /\ \A i \in 1..Len(s) : t[i] = s[i]

\* C11: no step changes or removes a row of refined_projects or rejected_projects
\* (each table only grows), and add_directory leaves both tables exactly as they
\* were.
C11_CuratedDiscardedOnlyGrow ==
    [][/\ IsPrefix(refined_projects, refined_projects')
       /\ IsPrefix(rejected_projects, rejected_projects')
       /\ last'.op = "add_directory" =>
             (refined_projects' = refined_projects
                /\ rejected_projects' = rejected_projects)]_vars

\* C11 witness: a scan that added discovered records while curated records
\* existed, two of them for the same discovered id.
C11_Witness ==
    /\ last.op = "add_directory" /\ last.added > 0
    /\ \E id \in RawIds : Cardinality(CuratedRows(id)) = 2

\* C12 (as claimed): a successful refine_project(raw_id, **metadata) writes a
\* curated row with raw_project_id = raw_id whose path, folder, format, size and
\* creation date are those of the discovered record with id raw_id, whatever
\* the metadata holds.
C12_InheritedFieldsCopied ==
    [][\A raw_id \in RefineIds : \A metadata \in MetadataInputs :
          (RefineProject(raw_id, metadata) /\ last'.ret = "True")
          => LET c == refined_projects'[Len(refined_projects')]
             IN  /\ c.raw_project_id = raw_id
                 /\ \E r \in Rows(raw_projects) :
                       /\ r.id = raw_id
                       /\ c.project_file_path = r.project_file_path
                       /\ c.project_folder_path = r.project_folder_path
                       /\ c.daw_type = r.daw_type
                       /\ c.file_size_mb = r.file_size_mb
                       /\ c.date_created = r.date_created]_vars

\* the file a discovered record was made from
FileOf(r) == CHOOSE f \in ProjectFiles : PathText[f] = r.project_file_path

\* C13 (as claimed): a successful refine_project of a discovered record's id
\* without a year stores the year of the source record's creation date; with a
\* year it stores that year.
C13_YearSuppliedOrDerived ==
    [][\A raw_id \in RawIds : \A metadata \in YearInputs :
          (RefineProject(raw_id, metadata) /\ last'.ret = "True")
          => LET c == refined_projects'[Len(refined_projects')]
             IN  IF IsNone(metadata.year)
                 THEN \E source \in show_project_details(IntToStr(raw_id)) :
                         c.year = Some(DateOf(Val(fs[FileOf(source.row)]).ctime)[1])
                 ELSE c.year = metadata.year]_vars

\* the markers as the policy lists them
DirectoryMarkers ==
    {"auto-backup", "auto-save", "backup", "temp", "tmp", ".backup", "_backup",
     "autosave", "recovery"}
FilenameMarkers == {" [20", ".bak", "_bak", ".backup", "_backup", "~", ".tmp"}

\* noise by the policy: a marker in the name of an ancestor directory, or a
\* filename marker in the file's own name (either case)
MarkedNoise ==
    [p \in ClassifierInputs |->
        \/ \E i \in 1..(Len(p) - 1) : \E m \in DirectoryMarkers : Contains(m, Lower(p[i]))
        \/ \E m \in FilenameMarkers : Contains(m, Lower(Name(p)))]

\* C14 (as claimed): _should_skip_file returns True exactly for the paths with
\* a directory marker in an ancestor's name or a filename marker in the file's
\* own name; a directory-only marker in the file's own name does not count.
C14_NoiseExactlyMarked ==
    \A p \in ClassifierInputs :
       (last.op = "_should_skip_file" /\ last.arg = Classified[p].text)
       => ((last.ret = "True") <=> MarkedNoise[p])

\* _analyze_project_file(p, ...) was the last call and returned a dict
Analysed(p) ==
    last.op = "_analyze_project_file" /\ last.arg = PathText[p] /\ ~IsNone(last.value)

\* the names of the files in p's directory, p itself and dot-files left out
SiblingNames(p) ==
    {Name(q) : q \in {x \in FilesOnDisk :
                         Parent(x) = Parent(p) /\ x # p /\ CharAt(Name(x), 1) # "."}}

\* the values additional_files has for the sibling names `names`, in any order
\* (None stands for the empty list)
Listings(names) ==
    IF names = {} THEN {None} ELSE {Some(JsonDumps(order)) : order \in Orderings(names)}

\* C15: for a .song or .bwproject file the resolver gives the containing
\* directory as the folder, that directory's name as the title and exactly the
\* non-hidden files of the directory other than the project file as siblings.
C15_FolderFormatResolution ==
    \A p \in ProjectFiles \cap (NameMatches[".song"] \cup NameMatches[".bwproject"]) :
       Analysed(p)
       => LET project_info == Val(last.value)
          IN  /\ project_info.project_folder_path = Some(PathStr(Parent(p)))
              /\ project_info.detected_title = Name(Parent(p))
              /\ project_info.additional_files \in Listings(SiblingNames(p))

\* C15 witness: music/Song/Song.song was resolved with Song.wav, a dot-file and
\* a subdirectory beside it: folder music/Song, title Song, siblings [Song.wav].
C15_Witness ==
    /\ Analysed(SongFile)
    /\ {SongWav, DsStore, KickWav} \subseteq assets
    /\ Val(last.value).project_folder_path = Some("music/Song")
    /\ Val(last.value).detected_title = "Song"
    /\ Val(last.value).additional_files = Some("[\"Song.wav\"]")

\* the name of p without the extension ext
Base(p, ext) == SubSeq(Name(p), 1, Len(Name(p)) - Len(ext))

\* the names of the entries (files and directories) of p's directory, p left out
EntryNames(p) ==
    {q[Len(p)] : q \in {x \in FilesOnDisk : Under(Parent(p), x) /\ SubSeq(x, 1, Len(p)) # p}}

\* C16: for a .logicx file the parent directory is the project folder exactly
\* when its name equals the file's stem or another entry of it has a name that
\* starts with the stem; otherwise there is no folder, there are no siblings
\* and the title is the stem.
C16_LogicFolderRule ==
    \A p \in ProjectFiles \cap NameMatches[".logicx"] :
       Analysed(p)
       => LET project_info == Val(last.value)
              stem == Base(p, ".logicx")
          IN  IF \/ Name(Parent(p)) = stem
                 \/ \E n \in EntryNames(p) : StartsWith(n, stem)
              THEN project_info.project_folder_path = Some(PathStr(Parent(p)))
              ELSE /\ project_info.project_folder_path = None
                   /\ project_info.additional_files = None
                   /\ project_info.detected_title = stem

\* C16 witness: music/sub/Solo.logicx resolved with Solo_bounce.wav beside it:
\* the directory, whose name is not the stem, is the project folder.
C16_Witness ==
    /\ Analysed(SoloLogic)
    /\ SoloWav \in assets
    /\ Val(last.value).project_folder_path = Some("music/sub")

\* C17: for a .flp file the resolver gives no folder, the file's stem as the
\* title and no siblings, whatever else its directory holds.
C17_StandaloneFormatResolution ==
    \A p \in ProjectFiles \cap NameMatches[".flp"] :
       Analysed(p)
       => LET project_info == Val(last.value)
          IN  /\ project_info.project_folder_path = None
              /\ project_info.detected_title = Base(p, ".flp")
              /\ project_info.additional_files = None

\* C17 witness: music/sub/Take-1.flp resolved while its directory held another
\* project and an audio file: no folder, title Take-1, no siblings.
C17_Witness ==
    /\ Analysed(TakeFlp)
    /\ SoloWav \in assets /\ Exists(SoloLogic)
    /\ Val(last.value).detected_title = "Take-1"
    /\ Val(last.value).project_folder_path = None
    /\ Val(last.value).additional_files = None

\* stat() of p raises
Unreadable(p) == Exists(p) /\ Val(fs[p]).err

\* C18: the resolver returns None for a file whose stat() fails, and
\* add_directory still returns its count with every readable matching file
\* under the root that is not noise in raw_projects.
C18_ScanFailsSoft ==
    /\ \A p \in ProjectFiles :
          (last.op = "_analyze_project_file" /\ last.arg = PathText[p] /\ Unreadable(p))
          => (last.ret = "None" /\ IsNone(last.value))
    /\ \A directory \in ScanRoots :
          (last.op = "add_directory" /\ last.arg = PathText[directory])
          => /\ last.ret = "int"
             /\ \A p \in ProjectFiles :
                   (Exists(p) /\ Under(directory, p) /\ ~Unreadable(p) /\ p \notin Skipped)
                   => \E r \in Rows(raw_projects) : r.project_file_path = PathText[p]

\* C18 witness: a scan of music with Solo.logicx unreadable found and added the
\* four other projects.
C18_Witness ==
    /\ last.op = "add_directory" /\ last.arg = "music"
    /\ Unreadable(SoloLogic)
    /\ last.found = 4 /\ last.added = 4 /\ Len(raw_projects) = 4

\* C19: add_directory of a directory that does not exist reports it, returns 0
\* and leaves the three tables as they were; detect_daw_projects returns the
\* empty list for it.
C19_MissingRootReported ==
    [][\A directory \in ScanRoots :
          (~Exists(directory) /\ last'.op = "add_directory"
             /\ last'.arg = PathText[directory])
          => /\ detect_daw_projects(directory) = {<<>>}
             /\ last'.ret = "int" /\ last'.added = 0
             /\ last'.msg = "Directory not found"
             /\ Tables' = Tables]_vars

\* C19 witness: the directory `nowhere` was scanned while discovered and
\* curated records existed.
C19_Witness ==
    /\ last.op = "add_directory" /\ last.arg = "nowhere" /\ last.added = 0
    /\ Len(raw_projects) > 0 /\ Len(refined_projects) > 0

\* the day number a stored date text stands for
DayOfText(text) == CHOOSE k \in Days : DateText(k) = text

\* the title holds the fragment, letter case aside
TitleHolds(title, fragment) == Contains(Lower(fragment), Lower(title))

\* the discovered and the curated records whose title holds the fragment
MatchingDiscovered(fragment) ==
    {r \in Rows(raw_projects) : TitleHolds(r.detected_title, fragment)}
MatchingCurated(fragment) ==
    {r \in Rows(refined_projects) : TitleHolds(r.title, fragment)}

\* show_project_details(fragment) was the last call
Fetched(fragment) == last.op = "show_project_details" /\ last.arg = fragment

\* the day the returned record was discovered or refined
FetchedDay ==
    IF Val(last.value).source_table = "raw"
    THEN DayOfText(Val(last.value).row.date_discovered)
    ELSE DayOfText(Val(last.value).row.date_refined)

----------------------------------------------------------------------------
(* C21..C25 *)

\* the rows of raw_projects a listing may show: in state Discovered, and of a
\* format the filter matches when a filter is given
Listable(daw_filter) ==
    {r \in Rows(raw_projects) :
        /\ Discovered(r.id)
        /\ IsNone(daw_filter) \/ Like(r.daw_type, Val(daw_filter))}

\* C21 (as claimed): the list command returns records: only ones in state
\* Discovered, only ones of the format the filter names when one is given, each
\* once, at most `limit` of them, and none of the first `offset` listable ones
\* short of that many being listable at all; so a promoted or discarded record
\* is never listed.
C21_ListOnlyDiscovered ==
    [][\A limit \in ListLimits, offset \in ListOffsets, daw_filter \in DawFilters :
          MainList(limit, offset, daw_filter)
          => /\ last'.ret = "list"
             /\ LET rows == IF IsNone(last'.value) THEN <<>> ELSE Val(last'.value)
                    ids == {rows[i].id : i \in 1..Len(rows)}
                    shown == {r.id : r \in Listable(daw_filter)}
                    more == Cardinality(shown) - offset
                IN  /\ ids \subseteq shown
                    /\ Cardinality(ids) = Len(rows)
                    /\ Len(rows) = IF more < 0 THEN 0
                                   ELSE IF more < limit THEN more ELSE limit]_vars

\* C22 (as claimed): on every caller path a rating of 0 or 11 makes the
\* promotion of a record in state Discovered fail: the refine command with
\* --rating 0 or --rating 11, and the interactive prompts answered 0 or 11,
\* report failure and write no curated record.
C22_BadRatingRejectedOnEveryPath ==
    [][/\ \A id \in RawIds : \A args \in ArgsInputs :
            (Discovered(id) /\ args.rating \in {Some(0), Some(11)} /\ MainRefine(id, args))
            => (last'.ret = "False" /\ refined_projects' = refined_projects)
       /\ \A raw_id \in RawIds : \A answers \in AnswersInputs :
            (Discovered(raw_id) /\ answers.rating \in {"0", "11"}
             /\ InteractiveRefine(raw_id, answers))
            => (last'.ret = "False" /\ refined_projects' = refined_projects)]_vars

\* the recognized extensions, and the paths of the model whose name ends in one
Recognized == {".flp", ".logicx", ".song", ".bwproject"}
EndsInRecognized == {p \in AllPaths : \E ext \in Recognized : EndsWith(Name(p), ext)}

\* the text of every path the classifier marks as noise
NoisePaths == {PathText[p] : p \in Skipped}

\* the files a scan of directory is to report: below it, with a recognized
\* extension, not noise, readable
Reportable(directory) ==
    {p \in FilesOnDisk :
        /\ Under(directory, p)
        /\ p \in EndsInRecognized
        /\ p \notin Skipped
        /\ ~Unreadable(p)}

\* C23: the list detect_daw_projects returns holds no path twice and holds
\* exactly the files below the root that have a recognized extension, that
\* _should_skip_file does not skip and that could be analysed; and no row of
\* raw_projects has a path _should_skip_file skips.
C23_ScanExactNoNoise ==
    /\ \A directory \in ScanRoots :
          (last.op = "detect_daw_projects" /\ last.arg = PathText[directory])
          => LET projects == Val(last.value)
                 path(i) == projects[i].project_file_path
             IN  /\ \A i, j \in 1..Len(projects) : path(i) = path(j) => i = j
                 /\ {path(i) : i \in 1..Len(projects)}
                       = {PathText[p] : p \in Reportable(directory)}
    /\ \A r \in Rows(raw_projects) : r.project_file_path \notin NoisePaths

\* C23 witness: with four projects already discovered, a scan of music returned
\* four candidates while Old.flp lay in Backup (noise), Solo.logicx could not be
\* read and other files lay beside the projects.
C23_Witness ==
    /\ last.op = "detect_daw_projects" /\ last.arg = "music"
    /\ Len(Val(last.value)) = 4
    /\ Exists(OldFlp) /\ OldFlp \in Skipped
    /\ Unreadable(SoloLogic)
    /\ SongWav \in assets
    /\ Len(raw_projects) = 4

\* the paths of the rows of a raw_projects table
PathsOf(rows) == {rows[i].project_file_path : i \in 1..Len(rows)}

\* C24: after add_directory(directory) the paths in raw_projects are the ones
\* that were there united with the paths of the scan's candidates (the files
\* of C23), and the count returned is the number of paths added, which is the
\* number of rows added; so every candidate of the batch is in the table
\* afterwards, whatever came before it in the batch.
C24_ScanAddsExactlyTheNew ==
    [][\A directory \in ScanRoots :
          (last'.op = "add_directory" /\ last'.arg = PathText[directory])
          => LET candidates == {PathText[p] : p \in Reportable(directory)}
             IN  /\ PathsOf(raw_projects') = PathsOf(raw_projects) \cup candidates
                 /\ last'.added = Cardinality(PathsOf(raw_projects') \ PathsOf(raw_projects))
                 /\ last'.added = Len(raw_projects') - Len(raw_projects)
                 /\ last'.found = Cardinality(candidates)]_vars

\* C24 witness: music/sub was scanned first, so the scan of music met
\* Take-1.flp, the first candidate of its batch, already in the table, and
\* still added the candidates after it.
C24_Witness ==
    /\ last.op = "add_directory" /\ last.arg = "music"
    /\ last.found = 5 /\ last.added = 3
    /\ Len(raw_projects) = 5
    /\ raw_projects[1].project_file_path = PathText[TakeFlp]
    /\ raw_projects[5].daw_type = "Bitwig"

\* the row of a table that has the id, as a set of at most one row
RowWithId(table, id) == {r \in Rows(table) : r.id = id}

\* C25: show_project_details of a number returns the row of raw_projects with
\* that id, tagged 'raw', whenever there is one, and the row of
\* refined_projects with that id only when there is none; and while a row of
\* raw_projects has the id, open_project hands over that row's file and
\* refine_project copies that row, whatever refined_projects holds under the
\* same id.
C25_NumberMeansDiscoveredFirst ==
    \A id \in FetchIds :
       last.arg = IdText[id] =>
          LET raw == RowWithId(raw_projects, id)
              refined == RowWithId(refined_projects, id)
          IN  /\ last.op = "show_project_details" =>
                    last.value = IF raw # {}
                                 THEN {[source_table |-> "raw", row |-> r] : r \in raw}
                                 ELSE {[source_table |-> "refined", row |-> r] : r \in refined}
              /\ (last.op = "open_project" /\ raw # {}) =>
                    /\ last.msg # "Project not found"
                    /\ last.value \subseteq {r.project_file_path : r \in raw}
              /\ (last.op = "refine_project" /\ raw # {}) =>
                    /\ last.ret = "True"
                    /\ LET new == refined_projects[Len(refined_projects)]
                       IN  \E r \in raw :
                              /\ new.raw_project_id = id
                              /\ new.title = r.detected_title
                              /\ new.project_file_path = r.project_file_path
                              /\ new.daw_type = r.daw_type

\* C25 witness: the curated record with id 1 was promoted from the discovered
\* record with id 2, and the lookup of 1 returned the discovered record with
\* id 1, another project.
C25_Witness ==
    /\ last.op = "show_project_details" /\ last.arg = "1"
    /\ \E found \in last.value :
          /\ found.source_table = "raw"
          /\ \E c \in RowWithId(refined_projects, 1) :
                /\ c.raw_project_id = 2
                /\ c.project_file_path # found.row.project_file_path
====
